---- MODULE Spec2Model ----
(***************************************************************************)
(* Moonshot Fund API (src/main.py): the project and donation collections   *)
(* of the document store and the four API handlers create_project,         *)
(* list_projects, create_donation and get_project.  A handler that writes   *)
(* after a read (create_donation) is cut between the two store calls; the  *)
(* other handlers are one step each.  A store call may raise.              *)
(*                                                                         *)
(* Spec is the program as main.py starts it: one uvicorn worker, whose     *)
(* event loop runs each handler (a coroutine without an await) to its end  *)
(* before it takes the next request.  SpecConcurrent is a deployment with  *)
(* several workers on one store: their writing requests interleave between *)
(* two store calls of one handler.                                         *)
(*                                                                         *)
(* Left out: the pass-through text fields of a project (title, founder     *)
(* name and email, description, goal_amount), the donor name and message   *)
(* of a donation, and the endpoints / and /test.  Amounts are integers     *)
(* (exactly representable numbers), and every donation gives the same one. *)
(***************************************************************************)
EXTENDS Integers, Sequences, FiniteSets

VARIABLES project, donation, req

vars == <<project, donation, req>>

\* ---- bounds of the model ------------------------------------------------
MaxProjects == 2
MaxDonations == 2
\* workers of SpecConcurrent
MaxInFlight == 2
\* number of hexadecimal characters of an identifier text (24 in bson)
IdLen == 2

\* ---- identifiers: bson.ObjectId ------------------------------------------
HexDigits == <<"0", "1", "2", "3", "4", "5", "6", "7", "8", "9",
               "a", "b", "c", "d", "e", "f">>

UpperDigits == <<"0", "1", "2", "3", "4", "5", "6", "7", "8", "9",
                 "A", "B", "C", "D", "E", "F">>

IsHex(c) ==
    \E i \in 1..Len(HexDigits) : HexDigits[i] = c \/ UpperDigits[i] = c

\* value 0..15 of one hexadecimal character, either case
Nibble(c) ==
    (CHOOSE i \in 1..Len(HexDigits) : HexDigits[i] = c \/ UpperDigits[i] = c) - 1

\* ObjectId.is_valid on a str: IdLen hexadecimal characters
ObjectIdValid(t) ==
    /\ Len(t) = IdLen
    /\ \A i \in 1..Len(t) : IsHex(t[i])

\* ObjectId(text): the binary value, as its sequence of nibbles
ObjectId(t) == [i \in 1..Len(t) |-> Nibble(t[i])]

\* str(ObjectId): lower-case hexadecimal text
Str(oid) == [i \in 1..Len(oid) |-> HexDigits[oid[i] + 1]]

\* the text in upper case
Upper(t) == [i \in 1..Len(t) |-> IF IsHex(t[i]) THEN UpperDigits[Nibble(t[i]) + 1] ELSE t[i]]

\* the identifier the store assigns to the n-th document of a collection:
\* distinct for distinct documents
NewObjectId(collection, n) ==
    LET tag == IF collection = "project" THEN 10 ELSE 13
    IN  [i \in 1..IdLen |-> IF i = IdLen THEN n ELSE IF i = IdLen - 1 THEN tag ELSE 0]

\* ---- inputs ---------------------------------------------------------------
NotHexText == [i \in 1..IdLen |-> "z"]

\* the identifier texts of the requests: the texts the store hands out for its
\* first MaxProjects + 1 projects, the first of them in upper case as well, a
\* text that is not hexadecimal and one that is a character short
IdTexts ==
    LET canonical == {Str(NewObjectId("project", n)) : n \in 1..(MaxProjects + 1)}
        first == Str(NewObjectId("project", 1))
    IN  canonical \cup {Upper(first), NotHexText, SubSeq(first, 1, IdLen - 1)}

Categories == {"AI", "Space"}

\* the amount of the donation in the documented scenario
Amounts == {250}

\* Optional[T]: <<>> is None, <<v>> is the value v
None == <<>>

CategoryParams == {None, <<"">>} \cup {<<c>> : c \in Categories}

FeaturedParams == {None, <<TRUE>>, <<FALSE>>}

\* ---- responses ------------------------------------------------------------
InvalidProjectId == "Invalid project_id"
ProjectNotFound == "Project not found"
StoreError == "store unavailable"
InvalidIdError == "not a valid ObjectId"

Idle ==
    [op |-> "idle", pc |-> "idle", pid |-> <<>>, amount |-> 0,
     status |-> 0, detail |-> "", body |-> <<>>]

\* the handler op returns b: its locals are gone, the response is left
Ok(op, b) == [Idle EXCEPT !.op = op, !.pc = "done", !.status = 200, !.body = b]

\* the handler op ends in raise HTTPException(status_code, detail)
HTTPException(op, code, text) ==
    [Idle EXCEPT !.op = op, !.pc = "done", !.status = code, !.detail = text]

\* ---- store ----------------------------------------------------------------
\* create_document(collection, data): the stored document
ProjectDoc(category, featured) ==
    [_id |-> NewObjectId("project", Len(project) + 1),
     category |-> category, featured |-> featured]

DonationDoc(pid, amount) ==
    [_id |-> NewObjectId("donation", Len(donation) + 1),
     project_id |-> pid, amount |-> amount]

\* get_documents("project", filter_dict)
GetDocuments(filter_dict) ==
    LET Match(d) ==
            /\ filter_dict.category # None => d.category = filter_dict.category[1]
            /\ filter_dict.featured # None => d.featured = filter_dict.featured[1]
    IN  SelectSeq(project, Match)

\* find_one whose filter is lost: the first document of the collection
FindOneAny(oid) ==
    IF project = <<>> THEN <<>> ELSE <<Head(project)>>

\* db["project"].find_one({"_id": oid}): <<>> is None
FindOne(oid) ==
    LET Match(d) == d._id = oid
        found == SelectSeq(project, Match)
    IN  IF found = <<>> THEN <<>> ELSE <<Head(found)>>

RECURSIVE SumAmount(_)
SumAmount(ds) ==
    IF ds = <<>> THEN 0 ELSE Head(ds).amount + SumAmount(Tail(ds))

\* db["donation"].aggregate([{$match: {project_id: text}},
\*                           {$group: {_id: $project_id, total: {$sum: $amount}}}])
Aggregate(text) ==
    LET Match(d) == d.project_id = text
        matched == SelectSeq(donation, Match)
    IN  IF matched = <<>> THEN <<>>
        ELSE <<[_id |-> text, total |-> SumAmount(matched)]>>

\* total = 0.0; for agg in donations: total = float(agg.get("total", 0))
RECURSIVE TotalOf(_, _)
TotalOf(total, aggs) ==
    IF aggs = <<>> THEN total ELSE TotalOf(Head(aggs).total, Tail(aggs))

\* ProjectOut(id=..., category=..., featured=..., total_donations=total)
ProjectOut(text, d, total) ==
    [id |-> text, category |-> d.category, featured |-> d.featured,
     total_donations |-> total]

\* ---- handlers -------------------------------------------------------------
\* uvicorn.run(app, host=..., port=...): one worker process
Workers == 1

\* the workers, each handling one request at a time
Slots == DOMAIN req

Init ==
    /\ project = <<>>
    /\ donation = <<>>
    /\ req = [s \in 1..Workers |-> Idle]

InitConcurrent ==
    /\ project = <<>>
    /\ donation = <<>>
    /\ req = [s \in 1..MaxInFlight |-> Idle]

\* the category parameter with the schema's default "AI" instead of None
FilterDictDefault(category, featured) ==
    [category |-> IF category # None /\ category[1] # "" THEN category ELSE <<"AI">>,
     featured |-> IF featured # None THEN featured ELSE None]

\* featured tested like category: "if featured:"
FilterDictTruthy(category, featured) ==
    [category |-> IF category # None /\ category[1] # "" THEN category ELSE None,
     featured |-> IF featured # None /\ featured[1] THEN featured ELSE None]

\* if category: ...; if featured is not None: ...
FilterDict(category, featured) ==
    [category |-> IF category # None /\ category[1] # "" THEN category ELSE None,
     featured |-> IF featured # None THEN featured ELSE None]

\* POST /api/projects
CreateProject(s, category, featured, raises) ==
    LET doc == ProjectDoc(category, featured)
    IN  /\ req[s].pc = "idle"
        /\ Len(project) < MaxProjects
        /\ IF raises
           THEN /\ req' = [req EXCEPT ![s] = HTTPException("create_project", 500, StoreError)]
                /\ UNCHANGED project
           ELSE /\ project' = Append(project, doc)
                /\ req' = [req EXCEPT ![s] = Ok("create_project", <<[id |-> Str(doc._id)]>>)]
        /\ UNCHANGED donation

\* for d in docs: ... results.append(ProjectOut(...))
RECURSIVE Results(_)
Results(docs) ==
    IF docs = <<>> THEN <<>>
    ELSE LET d == Head(docs)
             pid == Str(d._id)
             total == TotalOf(0, Aggregate(pid))
         IN  <<ProjectOut(pid, d, total)>> \o Results(Tail(docs))

\* GET /api/projects
ListProjects(s, category, featured, raises) ==
    LET docs == GetDocuments(FilterDict(category, featured))
    IN  /\ req[s].pc = "idle"
        /\ req' = [req EXCEPT ![s] =
                     IF raises THEN HTTPException("list_projects", 500, StoreError)
                     ELSE Ok("list_projects", Results(docs))]
        /\ UNCHANGED <<project, donation>>

\* create_donation without its try/except around ObjectId(pid), as get_project is
CreateDonationUnvalidated(s, pid, amount, raises) ==
    LET r == [Idle EXCEPT !.op = "create_donation", !.pid = pid, !.amount = amount]
    IN  /\ req[s].pc = "idle"
        /\ req' = [req EXCEPT ![s] =
                     IF ~ObjectIdValid(pid) THEN HTTPException("create_donation", 500, InvalidIdError)
                     ELSE IF raises THEN HTTPException("create_donation", 500, StoreError)
                     ELSE IF FindOne(ObjectId(pid)) = <<>>
                          THEN HTTPException("create_donation", 404, ProjectNotFound)
                     ELSE [r EXCEPT !.pc = "insert"]]
        /\ UNCHANGED <<project, donation>>

\* create_donation without "if not project: raise"
CreateDonationUnchecked(s, pid, amount, raises) ==
    LET r == [Idle EXCEPT !.op = "create_donation", !.pid = pid, !.amount = amount]
    IN  /\ req[s].pc = "idle"
        /\ req' = [req EXCEPT ![s] =
                     IF ~ObjectIdValid(pid) THEN HTTPException("create_donation", 400, InvalidProjectId)
                     ELSE IF raises THEN HTTPException("create_donation", 500, StoreError)
                     ELSE [r EXCEPT !.pc = "insert"]]
        /\ UNCHANGED <<project, donation>>

\* POST /api/donations: up to the call of find_one
CreateDonation(s, pid, amount, raises) ==
    LET r == [Idle EXCEPT !.op = "create_donation", !.pid = pid, !.amount = amount]
    IN  /\ req[s].pc = "idle"
        /\ req' = [req EXCEPT ![s] =
                     IF ~ObjectIdValid(pid) THEN HTTPException("create_donation", 400, InvalidProjectId)
                     ELSE IF raises THEN HTTPException("create_donation", 500, StoreError)
                     ELSE IF FindOne(ObjectId(pid)) = <<>>
                          THEN HTTPException("create_donation", 404, ProjectNotFound)
                     ELSE [r EXCEPT !.pc = "insert"]]
        /\ UNCHANGED <<project, donation>>

\* POST /api/donations: create_document("donation", donation) and the return
CreateDonationInsert(s, raises) ==
    LET r == req[s]
        doc == DonationDoc(r.pid, r.amount)
    IN  /\ r.op = "create_donation"
        /\ r.pc = "insert"
        /\ Len(donation) < MaxDonations
        /\ IF raises
           THEN /\ req' = [req EXCEPT ![s] = HTTPException("create_donation", 500, StoreError)]
                /\ UNCHANGED donation
           ELSE /\ donation' = Append(donation, doc)
                /\ req' = [req EXCEPT ![s] = Ok("create_donation", <<[id |-> Str(doc._id)]>>)]
        /\ UNCHANGED project

\* GET /api/projects/{project_id}
GetProject(s, pid, raises) ==
    LET doc == Head(FindOne(ObjectId(pid)))
        total == TotalOf(0, Aggregate(pid))
    IN  /\ req[s].pc = "idle"
        /\ req' = [req EXCEPT ![s] =
                     IF ~ObjectIdValid(pid) THEN HTTPException("get_project", 500, InvalidIdError)
                     ELSE IF raises THEN HTTPException("get_project", 500, StoreError)
                     ELSE IF FindOne(ObjectId(pid)) = <<>>
                          THEN HTTPException("get_project", 404, ProjectNotFound)
                     ELSE Ok("get_project", <<ProjectOut(Str(doc._id), doc, total)>>)]
        /\ UNCHANGED <<project, donation>>

\* the response is sent; the worker takes the next request
Respond(s) ==
    /\ req[s].pc = "done"
    /\ req' = [req EXCEPT ![s] = Idle]
    /\ UNCHANGED <<project, donation>>

Next ==
    \/ \E s \in Slots, raises \in BOOLEAN, c \in Categories, f \in BOOLEAN :
           CreateProject(s, c, f, raises)
    \/ \E s \in Slots, raises \in BOOLEAN, c \in CategoryParams, f \in FeaturedParams :
           ListProjects(s, c, f, raises)
    \/ \E s \in Slots, raises \in BOOLEAN, t \in IdTexts, a \in Amounts :
           CreateDonation(s, t, a, raises)
    \/ \E s \in Slots, raises \in BOOLEAN : CreateDonationInsert(s, raises)
    \/ \E s \in Slots, raises \in BOOLEAN, t \in IdTexts : GetProject(s, t, raises)
    \/ \E s \in Slots : Respond(s)

Spec == Init /\ [][Next]_vars

\* The workers of SpecConcurrent take the requests that write, create_project
\* and create_donation, with one value for each input that no existence check
\* reads (category, featured).  list_projects and get_project are left out:
\* their step leaves project and donation unchanged.
NextConcurrent ==
    \/ \E s \in Slots, raises \in BOOLEAN : CreateProject(s, "AI", FALSE, raises)
    \/ \E s \in Slots, raises \in BOOLEAN, t \in IdTexts, a \in Amounts :
           CreateDonation(s, t, a, raises)
    \/ \E s \in Slots, raises \in BOOLEAN : CreateDonationInsert(s, raises)
    \/ \E s \in Slots : Respond(s)

SpecConcurrent == InitConcurrent /\ [][NextConcurrent]_vars

\* ---- properties -----------------------------------------------------------
\* some stored project has the identifier oid
Stored(oid) == \E i \in 1..Len(project) : project[i]._id = oid

\* the sum of amount over the donations at the positions S, in no order
RECURSIVE SumAt(_)
SumAt(S) ==
    IF S = {} THEN 0
    ELSE LET i == CHOOSE j \in S : TRUE IN donation[i].amount + SumAt(S \ {i})

\* the donations whose project_id is the text of the identifier oid
DonationsOn(oid) == {i \in 1..Len(donation) : donation[i].project_id = Str(oid)}

\* the donations whose project_id was validated against the project oid
DonationsFor(oid) ==
    {i \in 1..Len(donation) :
        ObjectIdValid(donation[i].project_id) /\ ObjectId(donation[i].project_id) = oid}

\* worker s takes a create_donation request in this step
CreateDonationStep(s) == req[s].pc = "idle" /\ req'[s].op = "create_donation"

\* worker s handles a get_project request in this step
GetProjectStep(s) == req[s].pc = "idle" /\ req'[s].op = "get_project"

\* worker s handles a list_projects request in this step
ListProjectsStep(s) == req[s].pc = "idle" /\ req'[s].op = "list_projects"

\* worker s returns project views in this step
ViewsReturned(s) ==
    /\ req[s].pc = "idle"
    /\ req'[s].op \in {"get_project", "list_projects"}
    /\ req'[s].status = 200

ViewIds(views) == [i \in 1..Len(views) |-> views[i].id]

DocIds(docs) == [i \in 1..Len(docs) |-> Str(docs[i]._id)]

\* C1: create_donation with a valid project_id that is the identifier of no
\* stored project ends with 404 "Project not found" (500 only when the store
\* call itself raises), never reaches the insert and leaves both collections
\* as they were.
C1_CreateDonationNotFound ==
    [][\A s \in Slots : CreateDonationStep(s) =>
          \A t \in {u \in IdTexts : ObjectIdValid(u) /\ ~Stored(ObjectId(u))},
             a \in Amounts, raises \in BOOLEAN :
              CreateDonation(s, t, a, raises)
                  => /\ req'[s] = IF raises
                                  THEN HTTPException("create_donation", 500, StoreError)
                                  ELSE HTTPException("create_donation", 404, ProjectNotFound)
                     /\ UNCHANGED <<project, donation>>]_vars

C1_Witness ==
    \E s \in Slots :
        /\ req[s] = HTTPException("create_donation", 404, ProjectNotFound)
        /\ Len(project) >= 1

\* C2: create_donation with a syntactically invalid project_id ends with 400
\* "Invalid project_id" whatever the store holds and whether or not a store call
\* would raise (no store call is made), and leaves both collections as they were.
C2_CreateDonationInvalidId ==
    [][\A s \in Slots : CreateDonationStep(s) =>
          \A t \in {u \in IdTexts : ~ObjectIdValid(u)}, a \in Amounts, raises \in BOOLEAN :
              CreateDonation(s, t, a, raises)
                  => /\ req'[s] = HTTPException("create_donation", 400, InvalidProjectId)
                     /\ UNCHANGED <<project, donation>>]_vars

C2_Witness ==
    \E s \in Slots :
        /\ req[s] = HTTPException("create_donation", 400, InvalidProjectId)
        /\ Len(project) >= 1

\* C3: get_project with an id that is no valid identifier answers 400.
C3_GetProjectInvalidId ==
    [][\A s \in Slots : GetProjectStep(s) =>
          \A t \in IdTexts, raises \in BOOLEAN :
              (GetProject(s, t, raises) /\ ~ObjectIdValid(t)) => req'[s].status = 400]_vars

\* C4: the total_donations that get_project and list_projects report for a
\* project P is the sum of amount over the stored donations whose project_id
\* equals P's identifier, 0 when there is none.
C4_TotalIsSum ==
    [][\A s \in Slots : ViewsReturned(s) =>
          \A k \in 1..Len(req'[s].body) :
              LET v == req'[s].body[k]
              IN  v.total_donations = SumAt(DonationsOn(ObjectId(v.id)))]_vars

\* C5: every accepted donation is part of the total that a later get_project
\* or list_projects reports for the project it was validated against.
C5_AcceptedDonationCounted ==
    [][\A s \in Slots : ViewsReturned(s) =>
          \A k \in 1..Len(req'[s].body) :
              LET v == req'[s].body[k]
              IN  v.total_donations = SumAt(DonationsFor(ObjectId(v.id)))]_vars

\* C6: list_projects without filters returns every stored project, once each
\* and in the order of the collection, and no two stored projects share an id.
C6_ListAllProjects ==
    [][\A s \in Slots :
          (ListProjectsStep(s) /\ ListProjects(s, None, None, FALSE)) =>
              /\ ViewIds(req'[s].body) = DocIds(project)
              /\ Cardinality({project[i]._id : i \in 1..Len(project)}) = Len(project)]_vars

C6_Witness ==
    \E s \in Slots :
        /\ req[s].op = "list_projects" /\ req[s].pc = "done" /\ req[s].status = 200
        /\ Len(project) >= 2
        /\ ViewIds(req[s].body) = DocIds(project)
        /\ project[1].category # project[2].category
        /\ project[1].featured # project[2].featured

\* the stored projects that the parameters select when every parameter that is
\* not None filters, the empty category included
SelectedByProvided(category, featured) ==
    LET Match(d) ==
            /\ category # None => d.category = category[1]
            /\ featured # None => d.featured = featured[1]
    IN  SelectSeq(project, Match)

\* the stored projects that the parameters select when a category that is None
\* or empty does not filter
SelectedByNonEmpty(category, featured) ==
    LET Match(d) ==
            /\ (category # None /\ category[1] # "") => d.category = category[1]
            /\ featured # None => d.featured = featured[1]
    IN  SelectSeq(project, Match)

\* the view of each document, total_donations aside
Shown(docs) ==
    [i \in 1..Len(docs) |->
        [id |-> Str(docs[i]._id), category |-> docs[i].category,
         featured |-> docs[i].featured]]

Shape(views) ==
    [i \in 1..Len(views) |->
        [id |-> views[i].id, category |-> views[i].category,
         featured |-> views[i].featured]]

\* C7 as stated: list_projects returns exactly the stored projects whose category
\* equals the provided category (the empty text included) and whose featured
\* equals the provided featured (false included).
C7_FilterByProvided ==
    [][\A s \in Slots : ListProjectsStep(s) =>
          \A c \in CategoryParams, f \in FeaturedParams :
              ListProjects(s, c, f, FALSE) =>
                  Shape(req'[s].body) = Shown(SelectedByProvided(c, f))]_vars

\* C7 as amended: a category that is absent or the empty text imposes no
\* constraint; any other category and any provided featured (false included)
\* select exactly the stored projects equal in that field.
C7_FilterByNonEmpty ==
    [][\A s \in Slots : ListProjectsStep(s) =>
          \A c \in CategoryParams, f \in FeaturedParams :
              ListProjects(s, c, f, FALSE) =>
                  Shape(req'[s].body) = Shown(SelectedByNonEmpty(c, f))]_vars

C7_Witness ==
    \E s \in Slots :
        /\ req[s].op = "list_projects" /\ req[s].pc = "done" /\ req[s].status = 200
        /\ Len(project) >= 2
        /\ project[1].category = project[2].category
        /\ project[1].featured /\ ~project[2].featured
        /\ ViewIds(req[s].body) = <<Str(project[2]._id)>>

\* C8: a store call that raises ends the request with 500 and the message of
\* the store, with nothing written; an invalid identifier is answered with 400
\* and an unknown one with 404, never with 500.
C8_ErrorMapping ==
    [][\A s \in Slots :
          /\ \A raises \in BOOLEAN :
                (\/ \E c \in Categories, f \in BOOLEAN : CreateProject(s, c, f, raises)
                 \/ \E c \in CategoryParams, f \in FeaturedParams : ListProjects(s, c, f, raises)
                 \/ \E t \in IdTexts, a \in Amounts :
                        ObjectIdValid(t) /\ CreateDonation(s, t, a, raises)
                 \/ CreateDonationInsert(s, raises)
                 \/ \E t \in IdTexts : ObjectIdValid(t) /\ GetProject(s, t, raises))
                    => /\ raises => /\ req'[s].status = 500
                                    /\ req'[s].detail = StoreError
                                    /\ UNCHANGED <<project, donation>>
                       /\ ~raises => req'[s].status # 500
          /\ (CreateDonationStep(s) \/ GetProjectStep(s)) =>
                \A t \in IdTexts, a \in Amounts, raises \in BOOLEAN :
                    ((CreateDonation(s, t, a, raises) \/ GetProject(s, t, raises))
                        /\ ~ObjectIdValid(t)) => req'[s].status = 400]_vars

\* C9: every stored donation's project_id resolves to a stored project, and so
\* does the project_id of every create_donation that is past its existence
\* check and has not inserted yet.
C9_DonationsReferToProjects ==
    /\ \A i \in 1..Len(donation) :
          /\ ObjectIdValid(donation[i].project_id)
          /\ Stored(ObjectId(donation[i].project_id))
    /\ \A s \in Slots :
          (req[s].op = "create_donation" /\ req[s].pc = "insert") =>
              /\ ObjectIdValid(req[s].pid)
              /\ Stored(ObjectId(req[s].pid))

C9_Witness ==
    /\ Len(donation) >= 1
    /\ Len(project) >= 2
    /\ \E s, u \in Slots :
          /\ s # u
          /\ req[s].op = "create_donation" /\ req[s].pc = "insert"
          /\ req[u].op = "create_donation" /\ req[u].pc = "insert"
          /\ ObjectId(req[s].pid) # ObjectId(req[u].pid)

\* C10: the view get_project returns for a project is the entry of that project
\* in an unfiltered list_projects on the same store state, whatever accepted
\* text of the identifier get_project was called with.
C10_GetProjectAsListed ==
    [][\A s \in Slots : (GetProjectStep(s) /\ req'[s].status = 200) =>
          LET v == req'[s].body[1]
              listed == Results(GetDocuments(FilterDict(None, None)))
          IN  \E k \in 1..Len(listed) : listed[k] = v]_vars

====
